---- MODULE Spec2Model ----
(***************************************************************************)
(* Maze engine of src/demos/MazeGenerator.tsx: the seeded random source,   *)
(* the recursive-backtracking generator (generateMaze), the dead-end       *)
(* counter and the breadth-first solver (findPath), together with the      *)
(* component state that generateMaze stores its results in, the effect     *)
(* that renders the stored maze, the view toggles and the render loop.     *)
(*                                                                         *)
(* A 32-bit word is the pair <<hi, lo>> of its two 16-bit halves, so that  *)
(* Math.imul, ^ and >>> are computed on the bits without leaving the       *)
(* integer range of the model checker.                                     *)
(***************************************************************************)
EXTENDS Integers, Naturals, Sequences, FiniteSets, TLC

(***************************************************************************)
(* Bounds of the model.                                                    *)
(***************************************************************************)
\* largest grid size handed to generateMaze
MaxSize == 3
\* largest number of cells of the hand-made grids handed to findPath
MaxSolveCells == 6

\* largest grid size offered by the size selector of the view
MaxViewSize == 2
\* largest number of animation-frame callbacks counted after the unmount
MaxFrames == 2
\* largest number of cells of the grids handed to countDeadEnds alone
MaxCountCells == 4
\* largest number of calls of random() on one generator
MaxDraws == 3
\* largest factor k of Math.floor(random() * k)
MaxFactor == 4
\* largest multiple of 2 ** 32 by which a seed lies outside 32 bits
MaxWraps == 1

\* sizes handed to generateMaze: the valid ones and two invalid ones
Sizes == (-1)..MaxSize
\* seeds handed to generateMaze (zero, positive, negative)
Seeds == {0, 5, 12345, -1}
\* sizes that the size selector of the view offers (all of them valid)
ViewSizes == 1..MaxViewSize
\* seeds typed into the seed input of the view
ViewSeeds == {5, -1}
\* 32-bit seeds handed to createSeededRandom alone
RngSeeds == {0, 1, -1, 5, 12345, -7, 2147483647, -2147483647}
\* factors k of Math.floor(random() * k)
Factors == 1..MaxFactor
\* the multiples of 2 ** 32 in the seeds typed into the seed input
Wraps == (-MaxWraps)..MaxWraps

VARIABLES
    seed,          \* useState seed: the part of the number within 32 bits
    seedHigh,      \* useState seed: the multiple of 2 ** 32 in the number
    gridSize,      \* useState gridSize
    maze,          \* useState maze (Null before the first generation)
    startPos,      \* useState startPos
    endPos,        \* useState endPos
    solutionPath,  \* useState solutionPath
    stats,         \* useState stats
    pending,       \* the effect on [seed, gridSize] is due
    pc,            \* position of the component: idle, walk, failed; of the
                   \* calls made alone: solve, solved, count, counted, rng
    err,           \* the exception that ended the last effect, "none" if none
    s,             \* generateMaze: the closure variable s of random
    grid,          \* generateMaze: the local grid
    stack,         \* generateMaze: the local stack
    startX,        \* generateMaze: local startX
    startY,        \* generateMaze: local startY
    endX,          \* generateMaze: local endX
    endY,          \* generateMaze: local endY
    draws,         \* history: the calls of random() of this run, in order
    advances,      \* history: iterations of the walk that pushed a cell
    backtracks,    \* history: iterations of the walk that popped a cell
    ref,           \* history: size, seed and results of the first finished run
    again,         \* history: the stored results come from a later run
    called,        \* history: the arguments of the last call of generateMaze
    is3D,          \* useState is3D
    showSolution,  \* useState showSolution
    renderDue,     \* the effect on [maze, is3D, showSolution, solutionPath] is due
    shown,         \* the children of mazeGroupRef.current (Null when empty)
    mounted,       \* the component is mounted (its cleanup has not run)
    frame,         \* an animation-frame callback of animate is scheduled
    frames         \* history: callbacks of animate run after the unmount

\* the state of the view: the toggles, the scene and the render loop
view == <<is3D, showSolution, renderDue, shown, mounted, frame, frames>>

vars == <<seed, seedHigh, gridSize, maze, startPos, endPos, solutionPath, stats, pending,
          pc, err, s, grid, stack, startX, startY, endX, endY, draws, advances,
          backtracks, ref, again, called, is3D, showSolution, renderDue, shown,
          mounted, frame, frames>>

(***************************************************************************)
(* 32-bit arithmetic                                                       *)
(***************************************************************************)
Half == 65536

\* a ^ b on the low n bits
XorBits[a \in Nat, b \in Nat, n \in Nat] ==
    IF n = 0 THEN 0
    ELSE (((a % 2) + (b % 2)) % 2) + 2 * XorBits[a \div 2, b \div 2, n - 1]

\* the 16-bit halves and the 32-bit words
Halves == 0..(Half - 1)
Words == Halves \X Halves

\* a ^ b on 32-bit words
Xor32[a \in Words, b \in Words] ==
    <<XorBits[a[1], b[1], 16], XorBits[a[2], b[2], 16]>>

\* a >>> 16
Shr16[a \in Words] == <<0, a[1]>>

\* a >>> 13
Shr13[a \in Words] == <<a[1] \div 8192, (a[1] % 8192) * 8 + (a[2] \div 8192)>>

\* the 32-bit product of two 16-bit numbers, as a word
Mul16[a \in Halves, b \in Halves] ==
    LET p0 == a * (b % 256)
        p1 == a * (b \div 256)
        t  == p0 + (p1 % 256) * 256
    IN  <<(t \div Half) + (p1 \div 256), t % Half>>

\* Math.imul(a, c): the low 32 bits of a * c
Imul[a \in Words, c \in Words] ==
    <<(Mul16[a[2], c[2]][1] + Mul16[a[1], c[2]][2] + Mul16[a[2], c[1]][2]) % Half,
      Mul16[a[2], c[2]][2]>>

\* the magnitude of an integer
Abs(n) == IF n < 0 THEN -n ELSE n

\* the 32-bit word of a number in 0 .. 2 ** 31 - 1
Word(n) == <<n \div Half, n % Half>>

\* 2 ** 32 - w as a 32-bit word, and 0 for w = 0
Neg32[w \in Words] ==
    IF w[2] = 0 THEN <<(Half - w[1]) % Half, 0>>
    ELSE <<(Half - 1) - w[1], Half - w[2]>>

\* the number high * 2 ** 32 + n as JavaScript holds it, by sign and
\* magnitude: the magnitude is high * 2 ** 32 + low with low a 32-bit word
Number(n, high) ==
    LET negative == high < 0 \/ (high = 0 /\ n < 0)
        borrow == (negative /\ n > 0) \/ (~negative /\ n < 0)
    IN  [neg |-> negative,
         high |-> Abs(high) - (IF borrow THEN 1 ELSE 0),
         low |-> IF borrow THEN Neg32[Word(Abs(n))] ELSE Word(Abs(n))]

\* ToInt32 as it would be if it saturated at the ends of the 32-bit range
ToInt32Saturating(num) ==
    IF num.high > 0
    THEN (IF num.neg THEN <<32768, 0>> ELSE <<32767, 65535>>)
    ELSE (IF num.neg THEN Neg32[num.low] ELSE num.low)

\* ToInt32 of an integer number, which every bitwise operator applies to
\* its operand: the number modulo 2 ** 32, as the word of its bits
ToInt32(num) == IF num.neg THEN Neg32[num.low] ELSE num.low

\* 0x85ebca6b
MixA == <<34283, 51819>>
\* 0xc2b2ae35
MixB == <<49842, 44597>>

\* s = Math.imul(s ^ (s >>> 16), 0x85ebca6b)
Mix1[w \in Words] == Imul[Xor32[w, Shr16[w]], MixA]

\* s = Math.imul(s ^ (s >>> 13), 0xc2b2ae35)
Mix2[w \in Words] == Imul[Xor32[w, Shr13[w]], MixB]

(***************************************************************************)
(* Seeded random source                                                    *)
(***************************************************************************)
\* createSeededRandom as it would be with s kept outside the closure: the
\* seed is mixed into the s that the previous generator left behind
createSeededRandomStale(seedValue) == Xor32[ToInt32(seedValue), s]

\* createSeededRandom as it would be with let s = seed || 1
createSeededRandomNonZero(seedValue) ==
    IF seedValue = Number(0, 0) THEN ToInt32(Number(1, 0))
    ELSE ToInt32(seedValue)

\* createSeededRandom(seed): the closure variable s of a fresh generator
createSeededRandom(seedValue) == ToInt32(seedValue)

\* return ((s ^ (s >>> 16)) >>> 0) / 2 ** 32, with s the new state: the
\* new s and the 32-bit numerator u of the value returned
Output[w \in Words] == [s |-> w, u |-> Xor32[w, Shr16[w]]]

\* one call of the generator returned by createSeededRandom
random[s0 \in Words] == Output[Mix2[Mix1[s0]]]

\* Math.floor((u / 2 ** 32) * k) as it would be without the >>> 0 that
\* makes the numerator unsigned: u read as a signed 32-bit number
FloorScaleSigned(u, k) ==
    ((u[1] - (IF u[1] >= 32768 THEN Half ELSE 0)) * k + ((u[2] * k) \div Half))
        \div Half

\* Math.floor((u / 2 ** 32) * k)
FloorScale(u, k) == (u[1] * k + ((u[2] * k) \div Half)) \div Half

(***************************************************************************)
(* Grid and cells                                                          *)
(***************************************************************************)
\* the value of a reference that is null
Null == <<>>

\* a coordinate object { x, y }
Pos(x, y) == [x |-> x, y |-> y]

\* a cell as it would be if it were created without its west wall
NewCellOpenWest(x, y) ==
    [x |-> x, y |-> y,
     walls |-> [north |-> TRUE, south |-> TRUE, east |-> TRUE, west |-> FALSE],
     visited |-> FALSE]

\* a cell as generateMaze creates it: all four walls, not visited
NewCell(x, y) ==
    [x |-> x, y |-> y,
     walls |-> [north |-> TRUE, south |-> TRUE, east |-> TRUE, west |-> TRUE],
     visited |-> FALSE]

\* the initialisation loops as they would be with the size clamped to 1
NewGridClamped(size) ==
    [y \in 0..(IF size < 1 THEN 0 ELSE size - 1) |->
        [x \in 0..(IF size < 1 THEN 0 ELSE size - 1) |-> NewCell(x, y)]]

\* the initialisation as it would be if it kept the rows and cells of the
\* stored maze whenever that has the size asked for
NewGridReused(size) ==
    IF maze # <<>> /\ Cardinality(DOMAIN maze) = size THEN maze
    ELSE [y \in 0..(size - 1) |-> [x \in 0..(size - 1) |-> NewCell(x, y)]]

\* the grid after the initialisation loops, indexed grid[y][x]
NewGrid(size) == [y \in 0..(size - 1) |-> [x \in 0..(size - 1) |-> NewCell(x, y)]]

\* grid[y][x] is a cell (not undefined)
HasCell(g, x, y) == y \in DOMAIN g /\ x \in DOMAIN g[y]

\* cell.visited = true on the cell at (x, y)
MarkVisited(g, x, y) == [g EXCEPT ![y][x].visited = TRUE]

\* getUnvisitedNeighbors as it would be without the west check
getUnvisitedNeighborsNoWest(cell, g, size) ==
    LET x == cell.x
        y == cell.y
        nN == IF y > 0 /\ ~g[y - 1][x].visited THEN <<Pos(x, y - 1)>> ELSE <<>>
        nS == IF y < size - 1 /\ ~g[y + 1][x].visited THEN <<Pos(x, y + 1)>> ELSE <<>>
        nE == IF x < size - 1 /\ ~g[y][x + 1].visited THEN <<Pos(x + 1, y)>> ELSE <<>>
    IN  nN \o nS \o nE

\* getUnvisitedNeighbors as it would be without the east check
getUnvisitedNeighborsNoEast(cell, g, size) ==
    LET x == cell.x
        y == cell.y
        nN == IF y > 0 /\ ~g[y - 1][x].visited THEN <<Pos(x, y - 1)>> ELSE <<>>
        nS == IF y < size - 1 /\ ~g[y + 1][x].visited THEN <<Pos(x, y + 1)>> ELSE <<>>
        nW == IF x > 0 /\ ~g[y][x - 1].visited THEN <<Pos(x - 1, y)>> ELSE <<>>
    IN  nN \o nS \o nW

\* getUnvisitedNeighbors as it would be with the east check before the
\* south check
getUnvisitedNeighborsEastFirst(cell, g, size) ==
    LET x == cell.x
        y == cell.y
        nN == IF y > 0 /\ ~g[y - 1][x].visited THEN <<Pos(x, y - 1)>> ELSE <<>>
        nS == IF y < size - 1 /\ ~g[y + 1][x].visited THEN <<Pos(x, y + 1)>> ELSE <<>>
        nE == IF x < size - 1 /\ ~g[y][x + 1].visited THEN <<Pos(x + 1, y)>> ELSE <<>>
        nW == IF x > 0 /\ ~g[y][x - 1].visited THEN <<Pos(x - 1, y)>> ELSE <<>>
    IN  nN \o nE \o nS \o nW

\* the unvisited neighbours of cell, in the order north, south, east, west
getUnvisitedNeighbors(cell, g, size) ==
    LET x == cell.x
        y == cell.y
        nN == IF y > 0 /\ ~g[y - 1][x].visited THEN <<Pos(x, y - 1)>> ELSE <<>>
        nS == IF y < size - 1 /\ ~g[y + 1][x].visited THEN <<Pos(x, y + 1)>> ELSE <<>>
        nE == IF x < size - 1 /\ ~g[y][x + 1].visited THEN <<Pos(x + 1, y)>> ELSE <<>>
        nW == IF x > 0 /\ ~g[y][x - 1].visited THEN <<Pos(x - 1, y)>> ELSE <<>>
    IN  nN \o nS \o nE \o nW

\* removeWall as it would be without the branch for dy === -1
removeWallNoNorth(g, current, next) ==
    LET dx == next.x - current.x
        dy == next.y - current.y
    IN  IF dx = 1 THEN
            [g EXCEPT ![current.y][current.x].walls.east = FALSE,
                      ![next.y][next.x].walls.west = FALSE]
        ELSE IF dx = -1 THEN
            [g EXCEPT ![current.y][current.x].walls.west = FALSE,
                      ![next.y][next.x].walls.east = FALSE]
        ELSE IF dy = 1 THEN
            [g EXCEPT ![current.y][current.x].walls.south = FALSE,
                      ![next.y][next.x].walls.north = FALSE]
        ELSE g

\* removeWall as it would be if it cleared the flags of current only
removeWallOneSide(g, current, next) ==
    LET dx == next.x - current.x
        dy == next.y - current.y
    IN  IF dx = 1 THEN [g EXCEPT ![current.y][current.x].walls.east = FALSE]
        ELSE IF dx = -1 THEN [g EXCEPT ![current.y][current.x].walls.west = FALSE]
        ELSE IF dy = 1 THEN [g EXCEPT ![current.y][current.x].walls.south = FALSE]
        ELSE IF dy = -1 THEN [g EXCEPT ![current.y][current.x].walls.north = FALSE]
        ELSE g

\* removeWall as it would be with the sides of the two cells mixed up
removeWallSwapped(g, current, next) ==
    LET dx == next.x - current.x
        dy == next.y - current.y
    IN  IF dx = 1 THEN
            [g EXCEPT ![current.y][current.x].walls.west = FALSE,
                      ![next.y][next.x].walls.east = FALSE]
        ELSE IF dx = -1 THEN
            [g EXCEPT ![current.y][current.x].walls.east = FALSE,
                      ![next.y][next.x].walls.west = FALSE]
        ELSE IF dy = 1 THEN
            [g EXCEPT ![current.y][current.x].walls.north = FALSE,
                      ![next.y][next.x].walls.south = FALSE]
        ELSE IF dy = -1 THEN
            [g EXCEPT ![current.y][current.x].walls.south = FALSE,
                      ![next.y][next.x].walls.north = FALSE]
        ELSE g

\* removeWall as it would be if it gave current a new walls object with
\* only the wall towards next cleared
removeWallRestoring(g, current, next) ==
    LET dx == next.x - current.x
        dy == next.y - current.y
        all == [north |-> TRUE, south |-> TRUE, east |-> TRUE, west |-> TRUE]
    IN  IF dx = 1 THEN
            [g EXCEPT ![current.y][current.x].walls = [all EXCEPT !.east = FALSE],
                      ![next.y][next.x].walls.west = FALSE]
        ELSE IF dx = -1 THEN
            [g EXCEPT ![current.y][current.x].walls = [all EXCEPT !.west = FALSE],
                      ![next.y][next.x].walls.east = FALSE]
        ELSE IF dy = 1 THEN
            [g EXCEPT ![current.y][current.x].walls = [all EXCEPT !.south = FALSE],
                      ![next.y][next.x].walls.north = FALSE]
        ELSE IF dy = -1 THEN
            [g EXCEPT ![current.y][current.x].walls = [all EXCEPT !.north = FALSE],
                      ![next.y][next.x].walls.south = FALSE]
        ELSE g

\* removeWall(current, next): the grid after both cells' flags are cleared
removeWall(g, current, next) ==
    LET dx == next.x - current.x
        dy == next.y - current.y
    IN  IF dx = 1 THEN
            [g EXCEPT ![current.y][current.x].walls.east = FALSE,
                         ![next.y][next.x].walls.west = FALSE]
        ELSE IF dx = -1 THEN
            [g EXCEPT ![current.y][current.x].walls.west = FALSE,
                         ![next.y][next.x].walls.east = FALSE]
        ELSE IF dy = 1 THEN
            [g EXCEPT ![current.y][current.x].walls.south = FALSE,
                         ![next.y][next.x].walls.north = FALSE]
        ELSE IF dy = -1 THEN
            [g EXCEPT ![current.y][current.x].walls.north = FALSE,
                         ![next.y][next.x].walls.south = FALSE]
        ELSE g

\* array.length of an array indexed from 0
Length(array) == Cardinality(DOMAIN array)

\* the number of wall flags as it would be if the west flag were left out
WallCountNoWest(cell) ==
    (IF cell.walls.north THEN 1 ELSE 0) + (IF cell.walls.south THEN 1 ELSE 0)
    + (IF cell.walls.east THEN 1 ELSE 0)

\* the number of wall flags of a cell that are set
WallCount(cell) ==
    (IF cell.walls.north THEN 1 ELSE 0) + (IF cell.walls.south THEN 1 ELSE 0)
    + (IF cell.walls.east THEN 1 ELSE 0) + (IF cell.walls.west THEN 1 ELSE 0)

\* countDeadEnds as it would be with the loop over x starting at 1
countDeadEndsSkipFirst(g, size) ==
    Cardinality({p \in (1..(size - 1)) \X (0..(size - 1)) :
                    WallCount(g[p[2]][p[1]]) = 3})

\* countDeadEnds as it would be with wallCount >= 3 for wallCount === 3
countDeadEndsAtLeast(g, size) ==
    Cardinality({p \in (0..(size - 1)) \X (0..(size - 1)) :
                    WallCount(g[p[2]][p[1]]) >= 3})

\* countDeadEnds(grid, size): the cells with exactly three walls
countDeadEnds(g, size) ==
    Cardinality({p \in (0..(size - 1)) \X (0..(size - 1)) :
                    WallCount(g[p[2]][p[1]]) = 3})

(***************************************************************************)
(* Breadth-first solver                                                    *)
(***************************************************************************)
\* the key `${x},${y}` of the visited map
Key(x, y) == <<x, y>>

RECURSIVE ReconstructPush(_, _, _)
\* the reconstruction loop as it would be with path.push for path.unshift
ReconstructPush(visited, current, path) ==
    IF current = Null THEN path
    ELSE LET key == Key(current.x, current.y)
             prev == IF key \in DOMAIN visited THEN visited[key] ELSE Null
         IN  ReconstructPush(visited, prev, path \o <<current>>)

RECURSIVE Reconstruct(_, _, _)
\* the loop that walks the predecessor links back from the end cell,
\* putting each cell in front of the path
Reconstruct(visited, current, path) ==
    IF current = Null THEN path
    ELSE LET key == Key(current.x, current.y)
             prev == IF key \in DOMAIN visited THEN visited[key] ELSE Null
         IN  Reconstruct(visited, prev, <<current>> \o path)

\* one of the four direction checks: when open holds and the neighbour has
\* no entry in the visited map, record its predecessor and enqueue it
Visit(qv, open, nx, ny, x, y, dist) ==
    IF open /\ Key(nx, ny) \notin DOMAIN qv.visited
    THEN [queue |-> Append(qv.queue, [x |-> nx, y |-> ny, dist |-> dist + 1]),
          visited |-> (Key(nx, ny) :> Pos(x, y)) @@ qv.visited]
    ELSE qv

\* the direction checks as they would be without the west check
ExpandNoWest(g, qv, x, y, dist) ==
    LET cell == g[y][x]
        a == Visit(qv, ~cell.walls.north /\ y > 0, x, y - 1, x, y, dist)
        b == Visit(a, ~cell.walls.south /\ y < Length(g) - 1, x, y + 1, x, y, dist)
        c == Visit(b, ~cell.walls.east /\ x < Length(g[0]) - 1, x + 1, y, x, y, dist)
    IN  c

\* the direction checks as they would be with east checked before south
ExpandEastFirst(g, qv, x, y, dist) ==
    LET cell == g[y][x]
        a == Visit(qv, ~cell.walls.north /\ y > 0, x, y - 1, x, y, dist)
        b == Visit(a, ~cell.walls.east /\ x < Length(g[0]) - 1, x + 1, y, x, y, dist)
        c == Visit(b, ~cell.walls.south /\ y < Length(g) - 1, x, y + 1, x, y, dist)
        d == Visit(c, ~cell.walls.west /\ x > 0, x - 1, y, x, y, dist)
    IN  d

\* the four direction checks of one dequeued cell: north, south, east, west
Expand(g, qv, x, y, dist) ==
    LET cell == g[y][x]
        a == Visit(qv, ~cell.walls.north /\ y > 0, x, y - 1, x, y, dist)
        b == Visit(a, ~cell.walls.south /\ y < Length(g) - 1, x, y + 1, x, y, dist)
        c == Visit(b, ~cell.walls.east /\ x < Length(g[0]) - 1, x + 1, y, x, y, dist)
        d == Visit(c, ~cell.walls.west /\ x > 0, x - 1, y, x, y, dist)
    IN  d

RECURSIVE SearchLifo(_, _, _, _)
\* the while loop as it would be with queue.pop for queue.shift
SearchLifo(g, qv, ex, ey) ==
    IF qv.queue = <<>> THEN <<>>
    ELSE LET head == qv.queue[Len(qv.queue)]
             rest == [queue |-> SubSeq(qv.queue, 1, Len(qv.queue) - 1),
                      visited |-> qv.visited]
         IN  IF head.x = ex /\ head.y = ey
             THEN Reconstruct(qv.visited, Pos(head.x, head.y), <<>>)
             ELSE SearchLifo(g, Expand(g, rest, head.x, head.y, head.dist), ex, ey)

RECURSIVE Search(_, _, _, _)
\* the while loop of findPath over the queue
Search(g, qv, ex, ey) ==
    IF qv.queue = <<>> THEN <<>>
    ELSE LET head == Head(qv.queue)
             rest == [queue |-> Tail(qv.queue), visited |-> qv.visited]
         IN  IF head.x = ex /\ head.y = ey
             THEN Reconstruct(qv.visited, Pos(head.x, head.y), <<>>)
             ELSE Search(g, Expand(g, rest, head.x, head.y, head.dist), ex, ey)

\* findPath(grid, startX, startY, endX, endY)
findPath(g, sx, sy, ex, ey) ==
    Search(g,
           [queue |-> <<[x |-> sx, y |-> sy, dist |-> 0]>>,
            visited |-> (Key(sx, sy) :> Null)],
           ex, ey)

(***************************************************************************)
(* generateMaze                                                            *)
(***************************************************************************)
\* what one call of random can return
Returned == [s : Words, u : Words]

\* Math.floor(r * k) for the value r that one call of random returned,
\* together with the new s
Scaled[r \in Returned, k \in Int] ==
    [s |-> r.s, val |-> FloorScale(r.u, k)]

\* Math.floor(random() * k), logged under the name what
Draw(st, what, k) ==
    LET d == Scaled[random[st.s], k]
    IN  [s |-> d.s, val |-> d.val,
         draws |-> Append(st.draws, [what |-> what, k |-> k, val |-> d.val])]

\* the four draws as they would be with the end drawn before the start
FirstDrawsEndFirst(seedValue, size) ==
    LET d0 == [s |-> createSeededRandom(seedValue), draws |-> <<>>]
        d1 == Draw(d0, "endX", size)
        d2 == Draw(d1, "endY", size)
        d3 == Draw(d2, "startX", size)
        d4 == Draw(d3, "startY", size)
    IN  [s |-> d4.s, draws |-> d4.draws,
         startX |-> d3.val, startY |-> d4.val, endX |-> d1.val, endY |-> d2.val]

\* the four draws as they would be if random() were scaled by size + 1
FirstDrawsWide(seedValue, size) ==
    LET d0 == [s |-> createSeededRandom(seedValue), draws |-> <<>>]
        d1 == Draw(d0, "startX", size + 1)
        d2 == Draw(d1, "startY", size + 1)
        d3 == Draw(d2, "endX", size + 1)
        d4 == Draw(d3, "endY", size + 1)
    IN  [s |-> d4.s, draws |-> d4.draws,
         startX |-> d1.val, startY |-> d2.val, endX |-> d3.val, endY |-> d4.val]

\* the four draws that derive the start and end positions from the seed
FirstDraws(seedValue, size) ==
    LET d0 == [s |-> createSeededRandom(seedValue), draws |-> <<>>]
        d1 == Draw(d0, "startX", size)
        d2 == Draw(d1, "startY", size)
        d3 == Draw(d2, "endX", size)
        d4 == Draw(d3, "endY", size)
    IN  [s |-> d4.s, draws |-> d4.draws,
         startX |-> d1.val, startY |-> d2.val, endX |-> d3.val, endY |-> d4.val]

\* the number held by the state seed
SeedNumber == Number(seed, seedHigh)

\* what one run of generateMaze hands to the five setters
Stored == [grid |-> maze, start |-> startPos, end |-> endPos,
           path |-> solutionPath, stats |-> stats]

\* the code up to the walk loop as it would be if the grid were stored
\* (setMaze) as soon as it is initialised, before the start cell is read
GenerateBeginStoring ==
    /\ pc = "idle"
    /\ pending
    /\ LET d == FirstDraws(SeedNumber, gridSize)
           g == NewGrid(gridSize)
       IN  /\ s' = d.s
           /\ draws' = d.draws
           /\ startX' = d.startX
           /\ startY' = d.startY
           /\ endX' = d.endX
           /\ endY' = d.endY
           /\ maze' = g
           /\ IF HasCell(g, d.startX, d.startY)
              THEN /\ grid' = MarkVisited(g, d.startX, d.startY)
                   /\ stack' = <<Pos(d.startX, d.startY)>>
                   /\ pc' = "walk"
                   /\ err' = "none"
              ELSE /\ grid' = g
                   /\ stack' = <<>>
                   /\ pc' = "failed"
                   /\ err' = "TypeError"
    /\ pending' = FALSE
    /\ advances' = 0
    /\ backtracks' = 0
    /\ called' = [size |-> gridSize, seed |-> seed]
    /\ UNCHANGED <<seed, seedHigh, gridSize, startPos, endPos, solutionPath, stats,
                   ref, again>>
    /\ UNCHANGED view

\* the effect on [seed, gridSize] calls generateMaze(gridSize, seed): the
\* code up to the walk loop.  Reading the start cell of a grid that has no
\* such row throws a TypeError, which ends the call.
GenerateBegin ==
    /\ pc = "idle"
    /\ pending
    /\ LET d == FirstDraws(SeedNumber, gridSize)
           g == NewGrid(gridSize)
       IN  /\ s' = d.s
           /\ draws' = d.draws
           /\ startX' = d.startX
           /\ startY' = d.startY
           /\ endX' = d.endX
           /\ endY' = d.endY
           /\ IF HasCell(g, d.startX, d.startY)
              THEN /\ grid' = MarkVisited(g, d.startX, d.startY)
                   /\ stack' = <<Pos(d.startX, d.startY)>>
                   /\ pc' = "walk"
                   /\ err' = "none"
              ELSE /\ grid' = g
                   /\ stack' = <<>>
                   /\ pc' = "failed"
                   /\ err' = "TypeError"
    /\ pending' = FALSE
    /\ advances' = 0
    /\ backtracks' = 0
    /\ called' = [size |-> gridSize, seed |-> seed]
    /\ UNCHANGED <<seed, seedHigh, gridSize, maze, startPos, endPos, solutionPath, stats,
                   ref, again>>
    /\ UNCHANGED view

\* a step counter plus one; it stops one past size * size, the largest
\* number of steps of either kind that a run is said to take
Count(n, size) == IF n > size * size THEN n ELSE n + 1

\* stack.pop() as it would be if the bottom element were never removed
PopKeepsLast(st) == IF Len(st) = 1 THEN st ELSE SubSeq(st, 1, Len(st) - 1)

\* stack.pop() as it would be with stack.shift(): the bottom element goes
PopShift(st) == SubSeq(st, 2, Len(st))

\* stack.pop(): the stack without its top element
Pop(st) == SubSeq(st, 1, Len(st) - 1)

\* the cell on top of the stack
Current == grid[stack[Len(stack)].y][stack[Len(stack)].x]

\* the unvisited neighbours of the cell on top of the stack
Neighbors == getUnvisitedNeighbors(Current, grid, gridSize)

\* the draw Math.floor(random() * neighbors.length) of an advancing step
StepDraw == Draw([s |-> s, draws |-> draws], "step", Len(Neighbors))

\* one iteration of the walk loop with an unvisited neighbour
WalkAdvance ==
    /\ pc = "walk"
    /\ Len(stack) > 0
    /\ Len(Neighbors) > 0
    /\ \E current \in {Current} : \E d \in {StepDraw} :
       \E next \in {Neighbors[d.val + 1]} :
         /\ s' = d.s
         /\ draws' = d.draws
         /\ grid' = MarkVisited(removeWall(grid, current, next), next.x, next.y)
         /\ stack' = Append(stack, Pos(next.x, next.y))
    /\ advances' = Count(advances, gridSize)
    /\ UNCHANGED <<seed, seedHigh, gridSize, maze, startPos, endPos, solutionPath, stats,
                   pending, pc, err, startX, startY, endX, endY, backtracks,
                   ref, again, called>>
    /\ UNCHANGED view

\* one iteration of the walk loop without an unvisited neighbour
WalkBacktrack ==
    /\ pc = "walk"
    /\ Len(stack) > 0
    /\ Len(Neighbors) = 0
    /\ stack' = Pop(stack)
    /\ backtracks' = Count(backtracks, gridSize)
    /\ UNCHANGED <<seed, seedHigh, gridSize, maze, startPos, endPos, solutionPath, stats,
                   pending, pc, err, s, grid, startX, startY, endX, endY, draws,
                   advances, ref, again, called>>
    /\ UNCHANGED view

\* the code after the walk loop as it would be if pathLength were the
\* number of moves of the path (path.length - 1)
GenerateFinishMoves ==
    /\ pc = "walk"
    /\ Len(stack) = 0
    /\ LET deadEnds == countDeadEnds(grid, gridSize)
           path == findPath(grid, startX, startY, endX, endY)
       IN  /\ maze' = grid
           /\ startPos' = Pos(startX, startY)
           /\ endPos' = Pos(endX, endY)
           /\ solutionPath' = path
           /\ stats' = [deadEnds |-> deadEnds, pathLength |-> Len(path) - 1]
    /\ pc' = "idle"
    /\ ref' = IF ref = Null
              THEN [size |-> gridSize, seed |-> seed, high |-> seedHigh,
                    draws |-> draws, result |-> Stored']
              ELSE ref
    /\ again' = (ref # Null)
    /\ renderDue' = TRUE
    /\ UNCHANGED <<seed, seedHigh, gridSize, pending, err, s, grid, stack, startX, startY,
                   endX, endY, draws, advances, backtracks, called, is3D,
                   showSolution, shown, mounted, frame, frames>>

\* the code after the walk loop: the stats, the path and the five setters
GenerateFinish ==
    /\ pc = "walk"
    /\ Len(stack) = 0
    /\ LET deadEnds == countDeadEnds(grid, gridSize)
           path == findPath(grid, startX, startY, endX, endY)
       IN  /\ maze' = grid
           /\ startPos' = Pos(startX, startY)
           /\ endPos' = Pos(endX, endY)
           /\ solutionPath' = path
           /\ stats' = [deadEnds |-> deadEnds, pathLength |-> Len(path)]
    /\ pc' = "idle"
    /\ ref' = IF ref = Null
              THEN [size |-> gridSize, seed |-> seed, high |-> seedHigh,
                    draws |-> draws, result |-> Stored']
              ELSE ref
    /\ again' = (ref # Null)
    /\ renderDue' = TRUE
    /\ UNCHANGED <<seed, seedHigh, gridSize, pending, err, s, grid, stack, startX, startY,
                   endX, endY, draws, advances, backtracks, called, is3D,
                   showSolution, shown, mounted, frame, frames>>

\* setSeed as it would act if seed were missing from the dependencies of
\* the effect that calls generateMaze
SetSeedNoEffect(v) ==
    /\ pc = "idle"
    /\ mounted
    /\ ~pending
    /\ ~renderDue
    /\ seed' = v
    /\ seedHigh' = 0
    /\ pending' = FALSE
    /\ UNCHANGED <<gridSize, maze, startPos, endPos, solutionPath, stats, pc,
                   err, s, grid, stack, startX, startY, endX, endY, draws,
                   advances, backtracks, ref, again, called>>
    /\ UNCHANGED view

\* the seed input and the randomize button: setSeed(v), handled when the
\* effects of the previous render have run
SetSeed(v) ==
    /\ pc = "idle"
    /\ mounted
    /\ ~pending
    /\ ~renderDue
    /\ seed' = v
    /\ seedHigh' = 0
    /\ pending' = (v # seed \/ seedHigh # 0)
    /\ UNCHANGED <<gridSize, maze, startPos, endPos, solutionPath, stats, pc,
                   err, s, grid, stack, startX, startY, endX, endY, draws,
                   advances, backtracks, ref, again, called>>
    /\ UNCHANGED view

\* the seed input with a number beyond 32 bits typed into it:
\* setSeed(h * 2 ** 32 + v)
SetWideSeed(v, h) ==
    /\ pc = "idle"
    /\ mounted
    /\ ~pending
    /\ ~renderDue
    /\ seed' = v
    /\ seedHigh' = h
    /\ pending' = (v # seed \/ h # seedHigh)
    /\ UNCHANGED <<gridSize, maze, startPos, endPos, solutionPath, stats, pc,
                   err, s, grid, stack, startX, startY, endX, endY, draws,
                   advances, backtracks, ref, again, called>>
    /\ UNCHANGED view

\* the size selector: setGridSize(v)
SetGridSize(v) ==
    /\ pc = "idle"
    /\ mounted
    /\ ~pending
    /\ ~renderDue
    /\ gridSize' = v
    /\ pending' = (v # gridSize)
    /\ UNCHANGED <<seed, seedHigh, maze, startPos, endPos, solutionPath, stats, pc, err,
                   s, grid, stack, startX, startY, endX, endY, draws, advances,
                   backtracks, ref, again, called>>
    /\ UNCHANGED view

\* the seed, the size, the stored results and the state of generateMaze
engine == <<seed, seedHigh, gridSize, maze, startPos, endPos, solutionPath, stats,
            pending, pc, err, s, grid, stack, startX, startY, endX, endY,
            draws, advances, backtracks, ref, again, called>>

\* what the render effect puts into the maze group: the walls of the maze
\* in the chosen view and, when enabled and not empty, the solution path
Scene == [grid |-> maze,
          view |-> IF is3D THEN "3d" ELSE "2d",
          solution |-> IF showSolution /\ Len(solutionPath) > 0
                       THEN solutionPath ELSE <<>>]

\* the render effect as it would be if it cleared the visited flags of the
\* cells it has drawn
RenderMazeClearing ==
    /\ pc = "idle"
    /\ renderDue
    /\ renderDue' = FALSE
    /\ shown' = IF maze = Null THEN shown ELSE Scene
    /\ maze' = IF maze = Null THEN maze
               ELSE [y \in DOMAIN maze |-> [x \in DOMAIN maze[y] |->
                        [maze[y][x] EXCEPT !.visited = FALSE]]]
    /\ UNCHANGED <<seed, seedHigh, gridSize, startPos, endPos, solutionPath, stats,
                   pending, pc, err, s, grid, stack, startX, startY, endX, endY,
                   draws, advances, backtracks, ref, again, called>>
    /\ UNCHANGED <<is3D, showSolution, mounted, frame, frames>>

\* the effect on [maze, is3D, showSolution, solutionPath]: it returns at
\* once while maze is null, and otherwise replaces the children of the maze
\* group
RenderMaze ==
    /\ pc = "idle"
    /\ renderDue
    /\ renderDue' = FALSE
    /\ shown' = IF maze = Null THEN shown ELSE Scene
    /\ UNCHANGED engine
    /\ UNCHANGED <<is3D, showSolution, mounted, frame, frames>>

\* the view button: setIs3D(!is3D)
ToggleView ==
    /\ pc = "idle"
    /\ mounted
    /\ ~pending
    /\ ~renderDue
    /\ is3D' = ~is3D
    /\ renderDue' = TRUE
    /\ UNCHANGED engine
    /\ UNCHANGED <<showSolution, shown, mounted, frame, frames>>

\* the solution button: setShowSolution(!showSolution)
ToggleSolution ==
    /\ pc = "idle"
    /\ mounted
    /\ ~pending
    /\ ~renderDue
    /\ showSolution' = ~showSolution
    /\ renderDue' = TRUE
    /\ UNCHANGED engine
    /\ UNCHANGED <<is3D, shown, mounted, frame, frames>>

\* the cleanup of the mount effect: it disconnects the resize observer,
\* disposes the controls and the renderer and removes the canvas; it does
\* not cancel the animation-frame request
Unmount ==
    /\ pc = "idle"
    /\ mounted
    /\ ~pending
    /\ ~renderDue
    /\ mounted' = FALSE
    /\ UNCHANGED engine
    /\ UNCHANGED <<is3D, showSolution, renderDue, shown, frame, frames>>

\* one callback of animate: it requests the next frame, updates the
\* controls and renders the scene
AnimateFrame ==
    /\ frame
    /\ frame' = TRUE
    /\ frames' = IF mounted \/ frames >= MaxFrames THEN frames ELSE frames + 1
    /\ UNCHANGED engine
    /\ UNCHANGED <<is3D, showSolution, renderDue, shown, mounted>>

\* the useState initial values of maze, startPos, endPos, solutionPath and
\* stats
NothingStored ==
    /\ maze = Null
    /\ startPos = Pos(0, 0)
    /\ endPos = Pos(0, 0)
    /\ solutionPath = <<>>
    /\ stats = [deadEnds |-> 0, pathLength |-> 0]

\* generateMaze has not been called: no locals, an empty history
Unstarted ==
    /\ err = "none"
    /\ s = <<0, 0>>
    /\ grid = Null
    /\ stack = <<>>
    /\ startX = 0
    /\ startY = 0
    /\ endX = 0
    /\ endY = 0
    /\ draws = <<>>
    /\ advances = 0
    /\ backtracks = 0
    /\ ref = Null
    /\ again = FALSE
    /\ called = Null

\* the view after the mount effect: the useState initial values of is3D and
\* showSolution, an empty maze group, the render effect of the first render
\* due, and the first animation frame requested by animate()
ViewMounted ==
    /\ is3D = TRUE
    /\ showSolution = FALSE
    /\ renderDue = TRUE
    /\ shown = Null
    /\ mounted = TRUE
    /\ frame = TRUE
    /\ frames = 0

\* no view: a function of the engine is called on its own
ViewAbsent ==
    /\ is3D = TRUE
    /\ showSolution = FALSE
    /\ renderDue = FALSE
    /\ shown = Null
    /\ mounted = FALSE
    /\ frame = FALSE
    /\ frames = 0

\* the component as mounted: the useState initial values, with the seed and
\* the size drawn from the sets of the model, and the mount effect due
Init ==
    /\ seed \in Seeds
    /\ seedHigh = 0
    /\ gridSize \in Sizes
    /\ NothingStored
    /\ pending = TRUE
    /\ pc = "idle"
    /\ Unstarted
    /\ ViewMounted

Next ==
    \/ GenerateBegin
    \/ WalkAdvance
    \/ WalkBacktrack
    \/ GenerateFinish
    \/ RenderMaze
    \/ \E v \in Seeds : SetSeed(v)
    \/ \E v \in Sizes : SetGridSize(v)

Spec == Init /\ [][Next]_vars

\* the walk loop is a synchronous loop: an iteration that can run does run
LiveSpec ==
    /\ Spec
    /\ WF_vars(WalkAdvance)
    /\ WF_vars(WalkBacktrack)

(***************************************************************************)
(* findPath on hand-made grids                                             *)
(***************************************************************************)
\* the width and height of the hand-made grids
SolveShapes ==
    {wh \in (1..MaxSolveCells) \X (1..MaxSolveCells) : wh[1] * wh[2] <= MaxSolveCells}

\* the pairs of neighbouring cells of a w x h grid, west/north cell first
InnerEdges(w, h) ==
    {<<Pos(x, y), Pos(x + 1, y)>> : x \in 0..(w - 2), y \in 0..(h - 1)}
    \cup {<<Pos(x, y), Pos(x, y + 1)>> : x \in 0..(w - 1), y \in 0..(h - 2)}

\* the w x h grid whose walls are absent exactly between the pairs in open
\* and, when rim holds, on the outer boundary
MadeGrid(w, h, open, rim) ==
    [y \in 0..(h - 1) |-> [x \in 0..(w - 1) |->
        [x |-> x, y |-> y,
         walls |-> [north |-> IF y = 0 THEN ~rim
                              ELSE <<Pos(x, y - 1), Pos(x, y)>> \notin open,
                    south |-> IF y = h - 1 THEN ~rim
                              ELSE <<Pos(x, y), Pos(x, y + 1)>> \notin open,
                    east  |-> IF x = w - 1 THEN ~rim
                              ELSE <<Pos(x, y), Pos(x + 1, y)>> \notin open,
                    west  |-> IF x = 0 THEN ~rim
                              ELSE <<Pos(x - 1, y), Pos(x, y)>> \notin open],
         visited |-> FALSE]]]

\* a grid with symmetric walls, a start and an end, before findPath is called
SolveInit ==
    /\ \E wh \in SolveShapes : \E open \in SUBSET InnerEdges(wh[1], wh[2]) :
       \E rim \in BOOLEAN :
         /\ maze = MadeGrid(wh[1], wh[2], open, rim)
         /\ startPos \in {Pos(x, y) : x \in 0..(wh[1] - 1), y \in 0..(wh[2] - 1)}
         /\ endPos \in {Pos(x, y) : x \in 0..(wh[1] - 1), y \in 0..(wh[2] - 1)}
    /\ solutionPath = <<>>
    /\ pc = "solve"
    /\ seed = 0
    /\ seedHigh = 0
    /\ gridSize = 0
    /\ stats = [deadEnds |-> 0, pathLength |-> 0]
    /\ pending = FALSE
    /\ err = "none"
    /\ s = <<0, 0>>
    /\ grid = Null
    /\ stack = <<>>
    /\ startX = 0
    /\ startY = 0
    /\ endX = 0
    /\ endY = 0
    /\ draws = <<>>
    /\ advances = 0
    /\ backtracks = 0
    /\ ref = Null
    /\ again = FALSE
    /\ called = Null
    /\ ViewAbsent

\* the call findPath(maze, startPos.x, startPos.y, endPos.x, endPos.y)
SolveCall ==
    /\ pc = "solve"
    /\ solutionPath' = findPath(maze, startPos.x, startPos.y, endPos.x, endPos.y)
    /\ pc' = "solved"
    /\ UNCHANGED <<seed, seedHigh, gridSize, maze, startPos, endPos, stats, pending, err,
                   s, grid, stack, startX, startY, endX, endY, draws, advances,
                   backtracks, ref, again, called>>
    /\ UNCHANGED view

SolveNext == SolveCall

SolveSpec == SolveInit /\ [][SolveNext]_vars

(***************************************************************************)
(* countDeadEnds on grids with arbitrary wall flags                        *)
(***************************************************************************)
\* the sizes of the square grids handed to countDeadEnds
CountSizes == {n \in 1..MaxCountCells : n * n <= MaxCountCells}

\* the values of the walls field of a cell
WallFlags == [north : BOOLEAN, south : BOOLEAN, east : BOOLEAN, west : BOOLEAN]

\* the size x size grid whose cells have the wall flags given by flags
FlaggedGrid(size, flags) ==
    [y \in 0..(size - 1) |-> [x \in 0..(size - 1) |->
        [x |-> x, y |-> y, walls |-> flags[y][x], visited |-> TRUE]]]

\* a square grid with any wall flags, before countDeadEnds is called
CountInit ==
    /\ gridSize \in CountSizes
    /\ \E flags \in [0..(gridSize - 1) -> [0..(gridSize - 1) -> WallFlags]] :
          maze = FlaggedGrid(gridSize, flags)
    /\ startPos = Pos(0, 0)
    /\ endPos = Pos(0, 0)
    /\ solutionPath = <<>>
    /\ stats = [deadEnds |-> 0, pathLength |-> 0]
    /\ seed = 0
    /\ seedHigh = 0
    /\ pending = FALSE
    /\ pc = "count"
    /\ Unstarted
    /\ ViewAbsent

\* the call countDeadEnds(maze, size), its result kept in stats
CountCall ==
    /\ pc = "count"
    /\ stats' = [stats EXCEPT !.deadEnds = countDeadEnds(maze, gridSize)]
    /\ pc' = "counted"
    /\ UNCHANGED <<seed, seedHigh, gridSize, maze, startPos, endPos, solutionPath,
                   pending, err, s, grid, stack, startX, startY, endX, endY,
                   draws, advances, backtracks, ref, again, called>>
    /\ UNCHANGED view

CountNext == CountCall

CountSpec == CountInit /\ [][CountNext]_vars

(***************************************************************************)
(* The random source on its own                                            *)
(***************************************************************************)
\* a generator fresh from createSeededRandom(seed), for a 32-bit seed
RngInit ==
    /\ seed \in RngSeeds
    /\ seedHigh = 0
    /\ s = createSeededRandom(Number(seed, seedHigh))
    /\ draws = <<>>
    /\ pc = "rng"
    /\ gridSize = 0
    /\ NothingStored
    /\ pending = FALSE
    /\ err = "none"
    /\ grid = Null
    /\ stack = <<>>
    /\ startX = 0
    /\ startY = 0
    /\ endX = 0
    /\ endY = 0
    /\ advances = 0
    /\ backtracks = 0
    /\ ref = Null
    /\ again = FALSE
    /\ called = Null
    /\ ViewAbsent

\* one more Math.floor(random() * k) on the same generator
RngDraw(k) ==
    /\ pc = "rng"
    /\ Len(draws) < MaxDraws
    /\ \E d \in {Draw([s |-> s, draws |-> draws], "index", k)} :
          /\ s' = d.s
          /\ draws' = d.draws
    /\ UNCHANGED <<seed, seedHigh, gridSize, maze, startPos, endPos, solutionPath, stats,
                   pending, pc, err, grid, stack, startX, startY, endX, endY,
                   advances, backtracks, ref, again, called>>
    /\ UNCHANGED view

RngNext == \E k \in Factors : RngDraw(k)

RngSpec == RngInit /\ [][RngNext]_vars

(***************************************************************************)
(* The view: the generator with the toggles, the render effect, the        *)
(* unmount and the render loop                                             *)
(***************************************************************************)
\* the component as mounted, with a seed and a size of the view
ViewInit ==
    /\ seed \in ViewSeeds
    /\ seedHigh = 0
    /\ gridSize \in ViewSizes
    /\ NothingStored
    /\ pending = TRUE
    /\ pc = "idle"
    /\ Unstarted
    /\ ViewMounted

ViewNext ==
    \/ GenerateBegin
    \/ WalkAdvance
    \/ WalkBacktrack
    \/ GenerateFinish
    \/ RenderMaze
    \/ \E v \in ViewSeeds : SetSeed(v)
    \/ \E v \in ViewSizes : SetGridSize(v)
    \/ ToggleView
    \/ ToggleSolution
    \/ Unmount
    \/ AnimateFrame

ViewSpec == ViewInit /\ [][ViewNext]_vars

(***************************************************************************)
(* The generator with seeds outside the 32-bit range                       *)
(***************************************************************************)
\* the component as mounted, with a seed of any width
WideInit ==
    /\ seed \in ViewSeeds
    /\ seedHigh \in Wraps
    /\ gridSize \in ViewSizes
    /\ NothingStored
    /\ pending = TRUE
    /\ pc = "idle"
    /\ Unstarted
    /\ ViewMounted

WideNext ==
    \/ GenerateBegin
    \/ WalkAdvance
    \/ WalkBacktrack
    \/ GenerateFinish
    \/ RenderMaze
    \/ \E v \in ViewSeeds : \E h \in Wraps : SetWideSeed(v, h)
    \/ \E v \in ViewSizes : SetGridSize(v)

WideSpec == WideInit /\ [][WideNext]_vars

(***************************************************************************)
(* The open-adjacency graph of a grid, for the statements below            *)
(***************************************************************************)
\* the coordinates of the cells of a grid
Cells(g) == {Pos(x, y) : x \in DOMAIN g[0], y \in DOMAIN g}

\* a and b are neighbours in the grid (north, south, east or west)
Adjacent(a, b) ==
    \/ a.x = b.x /\ (a.y = b.y + 1 \/ b.y = a.y + 1)
    \/ a.y = b.y /\ (a.x = b.x + 1 \/ b.x = a.x + 1)

\* the wall flag of cell a on its side towards its neighbour b
WallToward(g, a, b) ==
    IF b.x = a.x + 1 THEN g[a.y][a.x].walls.east
    ELSE IF b.x = a.x - 1 THEN g[a.y][a.x].walls.west
    ELSE IF b.y = a.y + 1 THEN g[a.y][a.x].walls.south
    ELSE g[a.y][a.x].walls.north

\* a and b are neighbours with no wall between them
OpenBetween(g, a, b) ==
    Adjacent(a, b) /\ ~WallToward(g, a, b) /\ ~WallToward(g, b, a)

\* the open edges of a grid, each as the set of its two cells
OpenEdges(g) ==
    {e \in {{a, b} : a \in Cells(g), b \in Cells(g)} :
        \E a \in e : \E b \in e : OpenBetween(g, a, b)}

RECURSIVE Within(_, _, _)
\* the cells that at most k moves through open adjacencies lead to from from
Within(g, from, k) ==
    IF k = 0 THEN {from}
    ELSE LET near == Within(g, from, k - 1)
         IN  near \cup {b \in Cells(g) : \E a \in near : OpenBetween(g, a, b)}

\* the cells reachable from from through open adjacencies
Reachable(g, from) == Within(g, from, Cardinality(Cells(g)))

\* every cell is reachable from every other cell
Connected(g) == \A a \in Cells(g) : Reachable(g, a) = Cells(g)

\* the wall flags of neighbouring cells agree
WallsAgree(g) ==
    \A a \in Cells(g) : \A b \in Cells(g) :
        Adjacent(a, b) => (WallToward(g, a, b) = WallToward(g, b, a))

\* the four sides of a cell
Sides == {"north", "south", "east", "west"}

\* exactly one side of the cell has no wall
OneSideOpen(cell) ==
    \E open \in Sides :
        /\ ~cell.walls[open]
        /\ \A side \in Sides \ {open} : cell.walls[side]

\* generateMaze has finished and stored its results
Generated == pc = "idle" /\ maze # Null

(***************************************************************************)
(* Statements about the generator                                          *)
(***************************************************************************)
\* C1: when generateMaze finishes, every cell of the grid is reachable from
\* every other cell by moves between adjacent cells without a wall between
\* them.
GeneratedConnected == Generated => Connected(maze)

\* a generated grid of the largest size, with more than one cell
GeneratedConnectedWitness ==
    Generated /\ Length(maze) = MaxSize /\ Cardinality(Cells(maze)) > 1

\* C2: when generateMaze finishes, the number of open edges is exactly
\* N * N - 1.
GeneratedEdgeCount ==
    Generated => Cardinality(OpenEdges(maze)) = Length(maze) * Length(maze) - 1

\* a generated grid with open edges
GeneratedEdgeCountWitness ==
    Generated /\ Length(maze) >= 2 /\ Cardinality(OpenEdges(maze)) >= 3

\* C3: in every state during and after generation the wall flags of
\* adjacent cells agree (east with west, south with north).
WallsSymmetric ==
    /\ (pc = "walk" => WallsAgree(grid))
    /\ (Generated => WallsAgree(maze))

\* a state in the middle of the walk in which a wall has been removed
WallsSymmetricWitness ==
    /\ pc = "walk"
    /\ Len(stack) >= 2
    /\ \E a \in Cells(grid) : \E b \in Cells(grid) : OpenBetween(grid, a, b)

\* C4: a later run of generateMaze with the size and seed of the first run
\* stores the same grid, start, end and solution path as the first run.
Deterministic ==
    (Generated /\ again /\ ~pending /\ ref.size = gridSize /\ ref.seed = seed)
        => /\ maze = ref.result.grid
           /\ startPos = ref.result.start
           /\ endPos = ref.result.end
           /\ solutionPath = ref.result.path

\* a second run with the size and seed of the first, on a grid with walls
\* to choose from
DeterministicWitness ==
    /\ Generated /\ again /\ ~pending
    /\ ref.size = gridSize /\ ref.seed = seed
    /\ gridSize >= 2 /\ seed # 0

\* the names under which the calls of random() of a run were logged
DrawNames == [i \in 1..Len(draws) |-> draws[i].what]

\* C5 as amended: the draws of one generation are start-x, start-y, end-x,
\* end-y, all four before the walk starts, and after them exactly one draw
\* per advancing walk step.
DrawOrderFixed ==
    (pc = "walk" \/ Generated) =>
        /\ Len(draws) = 4 + advances
        /\ SubSeq(DrawNames, 1, 4) = <<"startX", "startY", "endX", "endY">>
        /\ \A i \in 5..Len(draws) : draws[i].what = "step"

\* a finished run that advanced
DrawOrderFixedWitness == Generated /\ advances >= 3 /\ Len(draws) >= 7

\* C5 as stated: end-x and end-y are drawn only after the walk has
\* finished, so they are the last two draws of a finished run.
DrawOrderEndLast ==
    Generated =>
        /\ Len(draws) = 4 + advances
        /\ SubSeq(DrawNames, 1, 2) = <<"startX", "startY">>
        /\ \A i \in 3..(Len(draws) - 2) : draws[i].what = "step"
        /\ SubSeq(DrawNames, Len(draws) - 1, Len(draws)) = <<"endX", "endY">>

\* C6: for every generated grid and its start and end, the stored solution
\* path is not empty.
PathNeverEmpty == Generated => solutionPath # <<>>

\* a generated grid whose start and end differ
PathNeverEmptyWitness == Generated /\ startPos # endPos /\ Len(solutionPath) >= 3

\* C9: once started the walk loop ends with an empty stack, after at most
\* N * N advance steps and at most N * N backtrack steps.
WalkTerminates ==
    (pc = "walk") ~>
        (/\ Len(stack) = 0
         /\ advances <= gridSize * gridSize
         /\ backtracks <= gridSize * gridSize)

\* a finished run that advanced and backtracked
WalkTerminatesWitness ==
    Generated /\ Len(stack) = 0 /\ advances >= 3 /\ backtracks >= 4

\* C10 as amended: generateMaze called with size <= 0 fails with the
\* TypeError of reading the start cell of an empty grid.
NonPositiveSizeTypeError ==
    (gridSize <= 0 /\ ~pending) => (pc = "failed" /\ err = "TypeError")

\* a call with size 0 or less has been made
NonPositiveSizeTypeErrorWitness == gridSize <= 0 /\ ~pending /\ pc = "failed"

\* C10 as stated: generateMaze called with size <= 0 fails with an
\* InvalidArgument condition.
NonPositiveSizeInvalidArgument ==
    (gridSize <= 0 /\ ~pending) => err = "InvalidArgument"

\* C11: a call of generateMaze with size <= 0 fails without storing
\* anything: the stored maze, start, end, solution path and stats are after
\* the call what they were before it.
NoPartialGrid ==
    [][(gridSize <= 0 /\ pending /\ ~pending')
           => (pc' = "failed" /\ Stored' = Stored)]_vars

\* a call with size <= 0 has failed after an earlier call had stored a maze
NoPartialGridWitness ==
    gridSize <= 0 /\ pc = "failed" /\ maze # Null /\ Length(maze) >= 2

\* every cell of g has its four walls, and only the cell at (x, y) is
\* marked visited
FreshGrid(g, x, y) ==
    \A c \in Cells(g) :
        /\ WallCount(g[c.y][c.x]) = 4
        /\ g[c.y][c.x].visited <=> (c = Pos(x, y))

\* C12: a run of generateMaze does not depend on the runs before it: it
\* starts from a grid of new cells, it leaves the stored maze of the earlier
\* run untouched while it walks, and a run with the size and seed of the
\* first run, made after runs with other sizes and seeds, stores the grid,
\* start, end, path and dead-end count that the first run stored.
Independent ==
    [][/\ (pc = "idle" /\ pc' = "walk") => FreshGrid(grid', startX', startY')
       /\ (pc' = "walk") => (maze' = maze)
       /\ (pc = "walk" /\ pc' = "idle" /\ ref # Null
              /\ called = [size |-> ref.size, seed |-> ref.seed])
             => (Stored' = ref.result)]_vars

\* the size and seed of the first run have been generated again, after a
\* run with another size or seed, and the maze has dead ends
IndependentWitness ==
    /\ Generated /\ again
    /\ called = [size |-> ref.size, seed |-> ref.seed]
    /\ ref.size = MaxSize
    /\ stats.deadEnds >= 2

\* the last call of generateMaze was made with size 1
CalledWithOne == called # Null /\ called.size = 1

\* C14 as amended: for the 1 x 1 grid that generateMaze produces the
\* dead-end count is 0, because its one cell has four walls, not three.
OneCellNoDeadEnd ==
    (Generated /\ CalledWithOne) => stats.deadEnds = 0

\* a run with size 1 has stored its 1 x 1 grid and its stats
OneCellNoDeadEndWitness ==
    /\ Generated /\ CalledWithOne
    /\ Length(maze) = 1 /\ Length(maze[0]) = 1
    /\ ~OneSideOpen(maze[0][0])

\* C14 as stated: for a 1 x 1 grid the dead-end count is 1.
OneCellOneDeadEnd ==
    (Generated /\ CalledWithOne) => stats.deadEnds = 1

\* C15: a run with size 1 makes no advancing step and no draw beyond the
\* first four, pops the start cell in its one backtracking step and then
\* finishes; the one cell has its four walls throughout and when stored.
OneCellWalk ==
    CalledWithOne =>
        /\ pc \in {"walk", "idle"}
        /\ advances = 0
        /\ Len(draws) = 4
        /\ backtracks <= 1
        /\ Cells(grid) = {Pos(0, 0)}
        /\ WallCount(grid[0][0]) = 4
        /\ pc = "walk" =>
              stack = (IF backtracks = 0 THEN <<Pos(0, 0)>> ELSE <<>>)
        /\ pc = "idle" =>
              (backtracks = 1 /\ stack = <<>> /\ maze = grid)

\* a run with size 1 has finished
OneCellWalkWitness ==
    /\ CalledWithOne /\ pc = "idle" /\ ~pending
    /\ backtracks = 1
    /\ WallCount(maze[0][0]) = 4

\* C17: for a size N >= 1 the start and end coordinates that generateMaze
\* draws are in 0 .. N - 1, and so are the stored start and end and every
\* coordinate of the stored solution path.
InsideGrid ==
    /\ (called # Null /\ called.size >= 1) =>
           {startX, startY, endX, endY} \subseteq 0..(called.size - 1)
    /\ Generated =>
           /\ {startPos, endPos} \subseteq Cells(maze)
           /\ \A i \in 1..Len(solutionPath) : solutionPath[i] \in Cells(maze)
           /\ Cells(maze) = {Pos(x, y) : x \in 0..(called.size - 1),
                                         y \in 0..(called.size - 1)}

\* a stored maze of the largest size whose start is in the last column and
\* the last row, with a path to an end elsewhere
InsideGridWitness ==
    /\ Generated
    /\ Length(maze) = MaxSize
    /\ startPos = Pos(MaxSize - 1, MaxSize - 1)
    /\ endPos # startPos
    /\ Len(solutionPath) >= 3

(***************************************************************************)
(* Statements about the random source                                      *)
(***************************************************************************)
\* C16: for every seed, zero and negative ones included, every value that
\* the generator returns is at least 0 and less than 1: each
\* Math.floor(random() * k) is one of 0 .. k - 1, and for k = 1 it is 0.
RandomInUnitInterval ==
    (pc = "rng") =>
        /\ s \in Words
        /\ \A i \in 1..Len(draws) :
              /\ draws[i].val >= 0
              /\ draws[i].val < draws[i].k

\* a generator with a negative seed has returned values that scale to the
\* lowest and to the highest index
RandomInUnitIntervalWitness ==
    /\ pc = "rng"
    /\ seed < 0
    /\ Len(draws) = MaxDraws
    /\ \E i \in 1..Len(draws) : draws[i].k >= 2 /\ draws[i].val = draws[i].k - 1
    /\ \E i \in 1..Len(draws) : draws[i].k >= 2 /\ draws[i].val = 0

(***************************************************************************)
(* Statements about countDeadEnds                                          *)
(***************************************************************************)
\* C13: countDeadEnds returns the number of cells of the grid that have
\* exactly three of their four wall flags set.
CountsThreeWalled ==
    (pc = "counted") =>
        stats.deadEnds =
            Cardinality({c \in Cells(maze) : OneSideOpen(maze[c.y][c.x])})

\* a counted grid with two or more dead ends, a cell with four walls and a
\* cell with fewer than three
CountsThreeWalledWitness ==
    /\ pc = "counted"
    /\ stats.deadEnds >= 2
    /\ \E c \in Cells(maze) : WallCount(maze[c.y][c.x]) = 4
    /\ \E c \in Cells(maze) : WallCount(maze[c.y][c.x]) < 3

(***************************************************************************)
(* Statements about the view                                               *)
(***************************************************************************)
\* the step is the end of a run of generateMaze: the code after the walk
\* loop, which calls countDeadEnds and findPath and then the setters
Finishing == pc = "walk" /\ pc' = "idle"

\* C18: countDeadEnds and findPath leave the grid as it is (the grid that
\* is stored is the grid as the walk left it), and once a grid is stored no
\* step other than the end of a later run changes it: not the render
\* effect, not a toggle, not the unmount or a frame of the render loop.
StoredGridImmutable ==
    [][/\ Finishing => (grid' = grid /\ maze' = grid)
       /\ (maze # Null /\ ~Finishing) => (maze' = maze)]_vars

\* the stored maze has been rendered in the 2D view with its solution, and
\* is still the grid that the walk left
StoredGridImmutableWitness ==
    /\ Generated /\ ~renderDue
    /\ shown # Null
    /\ shown.view = "2d"
    /\ Len(shown.solution) >= 2
    /\ shown.grid = maze
    /\ maze = grid

\* no effect is due and none is running
Settled == pc = "idle" /\ ~pending /\ ~renderDue

\* the step is a toggle of the 3D view or of the solution display
Toggling == is3D' # is3D \/ showSolution' # showSolution

\* C19: whenever the effects have run, the stored results are those of
\* the call generateMaze(gridSize, seed) for the current size and seed:
\* that call was the last one made, the stored grid has that size, and the
\* stored start and end are the ones drawn from that seed.  A toggle of
\* the view or of the solution display changes none of the stored results
\* and makes no call of generateMaze due.
EffectsSettle ==
    [][/\ Settled' =>
             /\ Generated'
             /\ called' = [size |-> gridSize', seed |-> seed']
             /\ Length(maze') = gridSize'
             /\ \E d \in {FirstDraws(SeedNumber', gridSize')} :
                   /\ startPos' = Pos(d.startX, d.startY)
                   /\ endPos' = Pos(d.endX, d.endY)
             /\ shown' = Scene'
       /\ Toggling =>
             /\ Stored' = Stored
             /\ called' = called
             /\ ~pending' /\ pc' = "idle"]_vars

\* the effects have run after the seed and the size were changed and both
\* toggles were used
EffectsSettleWitness ==
    /\ Settled /\ again
    /\ ~is3D /\ showSolution
    /\ gridSize # ref.size
    /\ seed # ref.seed
    /\ Len(solutionPath) >= 2

\* C20 as stated: after the unmount no animation-frame callback of the
\* view runs (and so none requests a further one).
NoFrameAfterUnmount == ~mounted => frames = 0

(***************************************************************************)
(* Statements about findPath                                               *)
(***************************************************************************)
\* findPath has returned for the hand-made grid
Solved == pc = "solved"

\* C7: a non-empty path returned by findPath starts at the start, ends at
\* the end, and every two consecutive elements are adjacent cells with no
\* wall between them.
PathFollowsOpenings ==
    (Solved /\ solutionPath # <<>>) =>
        /\ solutionPath[1] = startPos
        /\ solutionPath[Len(solutionPath)] = endPos
        /\ \A i \in 1..(Len(solutionPath) - 1) :
              OpenBetween(maze, solutionPath[i], solutionPath[i + 1])

\* a returned path of three or more cells
PathFollowsOpeningsWitness == Solved /\ Len(solutionPath) >= 3

\* C8: on a grid with symmetric walls the path returned by findPath is no
\* longer than any route from start to end through open adjacencies, and it
\* is empty only when there is no such route.
PathShortest ==
    Solved =>
        /\ (solutionPath = <<>>) <=> (endPos \notin Reachable(maze, startPos))
        /\ \A k \in 0..Cardinality(Cells(maze)) :
              (solutionPath # <<>> /\ endPos \in Within(maze, startPos, k))
                  => Len(solutionPath) <= k + 1

\* a returned path of three cells on a grid that also has a route of five
\* cells from the start to the end
PathShortestWitness ==
    /\ Solved
    /\ Len(solutionPath) = 3
    /\ \E a \in Cells(maze) : \E b \in Cells(maze) : \E c \in Cells(maze) :
          /\ Cardinality({startPos, a, b, c, endPos}) = 5
          /\ OpenBetween(maze, startPos, a)
          /\ OpenBetween(maze, a, b)
          /\ OpenBetween(maze, b, c)
          /\ OpenBetween(maze, c, endPos)

\* the four directions in the order north, south, east, west
Directions ==
    <<[side |-> "north", dx |-> 0, dy |-> -1],
      [side |-> "south", dx |-> 0, dy |-> 1],
      [side |-> "east", dx |-> 1, dy |-> 0],
      [side |-> "west", dx |-> -1, dy |-> 0]>>

RECURSIVE RefDiscover(_, _, _, _)
\* reference search: found is the list of the cells discovered so far, each
\* with the cell it was discovered from; the cells discovered from the cell
\* from in the directions k, k + 1, ... are added at its end
RefDiscover(g, found, from, k) ==
    IF k > Len(Directions) THEN found
    ELSE LET d == Directions[k]
             to == Pos(from.x + d.dx, from.y + d.dy)
             new == /\ to \in Cells(g)
                    /\ ~g[from.y][from.x].walls[d.side]
                    /\ \A i \in 1..Len(found) : found[i].cell # to
         IN  RefDiscover(g,
                         IF new THEN Append(found, [cell |-> to, from |-> from])
                         ELSE found,
                         from, k + 1)

RECURSIVE RefTrace(_, _)
\* reference search: the route to the i-th discovered cell
RefTrace(found, i) ==
    IF found[i].from = Null THEN <<found[i].cell>>
    ELSE LET j == CHOOSE j \in 1..Len(found) : found[j].cell = found[i].from
         IN  Append(RefTrace(found, j), found[i].cell)

RECURSIVE RefScan(_, _, _, _)
\* reference search: the discovered cells are taken in the order of their
\* discovery, from the i-th on, until the end is taken
RefScan(g, found, i, end) ==
    IF i > Len(found) THEN <<>>
    ELSE IF found[i].cell = end THEN RefTrace(found, i)
    ELSE RefScan(g, RefDiscover(g, found, found[i].cell, 1), i + 1, end)

\* reference breadth-first search from start to end
RefPath(g, start, end) ==
    RefScan(g, <<[cell |-> start, from |-> Null]>>, 1, end)

\* C21: findPath returns the path of a reference breadth-first search
\* that expands every cell it takes in the order north, south, east, west,
\* also where several routes are minimal.
PathOfReferenceSearch ==
    Solved => solutionPath = RefPath(maze, startPos, endPos)

\* a returned path of three cells on a grid with a second route of three
\* cells from the start to the end
PathOfReferenceSearchWitness ==
    /\ Solved
    /\ Len(solutionPath) = 3
    /\ \E a \in Cells(maze) :
          /\ a # solutionPath[2]
          /\ OpenBetween(maze, startPos, a)
          /\ OpenBetween(maze, a, endPos)

(***************************************************************************)
(* Statements about the steps of the walk                                  *)
(***************************************************************************)
\* the cells next to top in the order north, south, east, west
Around(top) ==
    [k \in 1..Len(Directions) |->
        Pos(top.x + Directions[k].dx, top.y + Directions[k].dy)]

\* the cells next to top that are in the grid and not visited, in the
\* order north, south, east, west
Candidates(g, top) ==
    LET Unvisited(c) == c \in Cells(g) /\ ~g[c.y][c.x].visited
    IN  SelectSeq(Around(top), Unvisited)

\* the step is an iteration of the walk loop
Walking == pc = "walk" /\ pc' = "walk" /\ Len(stack) > 0

\* the cell on top of the stack before the step
Top == stack[Len(stack)]

\* the last call of random() logged after the step
LastDraw == draws'[Len(draws')]

\* C22: an iteration of the walk whose top-of-stack cell has an unvisited
\* neighbour makes exactly one draw, over the number of candidates; the
\* chosen cell is the candidate with the drawn index in the order north,
\* south, east, west: an unvisited neighbour inside the grid.  The wall
\* between the two cells, and no other, is cleared, and the chosen cell is
\* marked visited and pushed.  An iteration without such a neighbour makes
\* no draw, pops the stack and leaves the grid as it is.
WalkStep ==
    [][Walking =>
         IF Candidates(grid, Top) # <<>>
         THEN /\ Len(draws') = Len(draws) + 1
              /\ SubSeq(draws', 1, Len(draws)) = draws
              /\ LastDraw.what = "step"
              /\ LastDraw.k = Len(Candidates(grid, Top))
              /\ LastDraw.val \in 0..(LastDraw.k - 1)
              /\ \E chosen \in {Candidates(grid, Top)[LastDraw.val + 1]} :
                    /\ chosen \in Cells(grid)
                    /\ Adjacent(Top, chosen)
                    /\ ~grid[chosen.y][chosen.x].visited
                    /\ grid'[chosen.y][chosen.x].visited
                    /\ stack' = Append(stack, chosen)
                    /\ ~OpenBetween(grid, Top, chosen)
                    /\ OpenBetween(grid', Top, chosen)
                    /\ WallCount(grid'[Top.y][Top.x])
                          = WallCount(grid[Top.y][Top.x]) - 1
                    /\ WallCount(grid'[chosen.y][chosen.x])
                          = WallCount(grid[chosen.y][chosen.x]) - 1
                    /\ \A c \in Cells(grid) \ {Top, chosen} :
                          grid'[c.y][c.x] = grid[c.y][c.x]
         ELSE /\ draws' = draws
              /\ grid' = grid
              /\ stack' = SubSeq(stack, 1, Len(stack) - 1)]_vars

\* the walk has just advanced, for the second time or later, to a
\* candidate that was not the first of several
WalkStepWitness ==
    /\ pc = "walk"
    /\ backtracks = 0
    /\ advances >= 2
    /\ Len(stack) = advances + 1
    /\ draws[Len(draws)].what = "step"
    /\ draws[Len(draws)].k >= 2
    /\ draws[Len(draws)].val >= 1

\* the cells of a grid whose visited flag is set
VisitedCells(g) == {c \in Cells(g) : g[c.y][c.x].visited}

\* the open edges of g are one fewer than its visited cells, and each joins
\* two visited cells
OpenEdgesJoinVisited(g) ==
    /\ Cardinality(OpenEdges(g)) = Cardinality(VisitedCells(g)) - 1
    /\ \A e \in OpenEdges(g) : e \subseteq VisitedCells(g)

\* C23: in every state of the walk the number of open edges is the number
\* of visited cells minus one and every open edge joins two visited cells;
\* no step of the walk sets a wall flag that was cleared.
OpenEdgesGrow ==
    [][/\ (pc' = "walk") => OpenEdgesJoinVisited(grid')
       /\ (pc = "walk") =>
             \A c \in Cells(grid) : \A side \in Sides :
                 ~grid[c.y][c.x].walls[side] => ~grid'[c.y][c.x].walls[side]]_vars

\* the walk has opened edges and backtracked, and cells are left to visit
OpenEdgesGrowWitness ==
    /\ pc = "walk"
    /\ backtracks >= 1
    /\ Cardinality(OpenEdges(grid)) >= 3
    /\ VisitedCells(grid) # Cells(grid)

\* C24: in every state of the walk the cells on the stack are pairwise
\* distinct and visited, the bottom of a non-empty stack is the start cell,
\* and every two consecutive cells of the stack are adjacent with the wall
\* between them removed.
StackIsOpenRoute ==
    (pc = "walk") =>
        /\ \A i \in 1..Len(stack) : \A j \in 1..Len(stack) :
              (stack[i] = stack[j]) => (i = j)
        /\ \A i \in 1..Len(stack) : stack[i] \in VisitedCells(grid)
        /\ (Len(stack) > 0) => (stack[1] = Pos(startX, startY))
        /\ \A i \in 1..(Len(stack) - 1) :
              OpenBetween(grid, stack[i], stack[i + 1])

\* the stack holds three or more cells again after the walk had backtracked
StackIsOpenRouteWitness ==
    /\ pc = "walk"
    /\ backtracks >= 1
    /\ Len(stack) >= 3
    /\ Len(stack) < Cardinality(VisitedCells(grid))

\* C25: when generateMaze finishes, every cell of the grid it stores has
\* its visited flag set.
AllVisited == Generated => (VisitedCells(maze) = Cells(maze))

\* a stored grid of the largest size, all of its cells visited, whose walk
\* did not start in a corner
AllVisitedWitness ==
    /\ Generated
    /\ Cardinality(VisitedCells(maze)) = MaxSize * MaxSize
    /\ startPos.x \notin {0, MaxSize - 1}

\* the cells of g on its outer boundary keep their wall on that side
BoundaryClosed(g) ==
    \A c \in Cells(g) :
        /\ (c.y = 0) => g[c.y][c.x].walls.north
        /\ (c.y = Length(g) - 1) => g[c.y][c.x].walls.south
        /\ (c.x = 0) => g[c.y][c.x].walls.west
        /\ (c.x = Length(g[0]) - 1) => g[c.y][c.x].walls.east

\* C26: the outer boundary of the grid is never opened, in the grid of a
\* walk in progress and in the stored maze: row 0 keeps its north walls,
\* row N - 1 its south walls, column 0 its west walls and column N - 1 its
\* east walls.
BoundaryNeverOpened ==
    /\ (pc = "walk") => BoundaryClosed(grid)
    /\ (maze # Null) => BoundaryClosed(maze)

\* a stored maze in which a corner cell has lost both of its inner walls
BoundaryNeverOpenedWitness ==
    /\ Generated
    /\ Length(maze) >= 2
    /\ \E c \in Cells(maze) :
          /\ c.x \in {0, Length(maze) - 1}
          /\ c.y \in {0, Length(maze) - 1}
          /\ WallCount(maze[c.y][c.x]) = 2

\* the last call of generateMaze was made with seed 0 and a size N >= 1
CalledWithZeroSeed == called # Null /\ called.seed = 0 /\ called.size >= 1

\* C27: with seed 0 every draw is 0: the drawn start and end coordinates
\* are 0, every advancing step of the walk picks the first unvisited
\* neighbour in the order north, south, east, west, and the run stores
\* (0, 0) as start and as end and the one-cell path <<(0, 0)>>.
ZeroSeedDrawsZero ==
    [][CalledWithZeroSeed' =>
         /\ s' = <<0, 0>>
         /\ \A i \in 1..Len(draws') : draws'[i].val = 0
         /\ {startX', startY', endX', endY'} = {0}
         /\ (Walking /\ Len(stack') > Len(stack)) =>
               (stack'[Len(stack')] = Candidates(grid, Top)[1])
         /\ (pc' = "idle") =>
               /\ startPos' = Pos(0, 0)
               /\ endPos' = Pos(0, 0)
               /\ solutionPath' = <<Pos(0, 0)>>]_vars

\* a run with seed 0 and the largest size has stored its results
ZeroSeedDrawsZeroWitness ==
    /\ CalledWithZeroSeed
    /\ called.size = MaxSize
    /\ Generated
    /\ Len(draws) = 3 + MaxSize * MaxSize
    /\ solutionPath = <<Pos(0, 0)>>

(***************************************************************************)
(* Statements about the stored results                                     *)
(***************************************************************************)
\* C28: the stored stats match the stored maze, start, end and path in
\* every state: pathLength is the number of cells of the stored path (1
\* when start and end are the same cell) and deadEnds is the number of
\* cells of the stored grid with exactly three walls; before the first run
\* has stored anything both are 0 and the path is empty.
StatsMatchStored ==
    /\ stats.pathLength = Len(solutionPath)
    /\ (maze = Null) => (stats.deadEnds = 0 /\ solutionPath = <<>>)
    /\ (maze # Null) =>
          /\ stats.deadEnds =
                Cardinality({c \in Cells(maze) : OneSideOpen(maze[c.y][c.x])})
          /\ (startPos = endPos) => (stats.pathLength = 1)
          /\ (startPos # endPos) => (stats.pathLength >= 2)

\* the results of a second run are stored, with a path of several cells
\* and with dead ends, while the next run is due
StatsMatchStoredWitness ==
    /\ Generated /\ again /\ pending
    /\ stats.pathLength >= 3
    /\ stats.deadEnds >= 2

\* C29: in every generated grid of size N >= 2 no cell has all of its four
\* walls, and the stored dead-end count is 2 or more.
NoClosedCell ==
    (Generated /\ Length(maze) >= 2) =>
        /\ \A c \in Cells(maze) : WallCount(maze[c.y][c.x]) <= 3
        /\ stats.deadEnds >= 2

\* a generated grid of the largest size with exactly two dead ends, and
\* one with more
NoClosedCellWitness ==
    /\ Generated
    /\ Length(maze) = MaxSize
    /\ stats.deadEnds = 2
    /\ ref.result.stats.deadEnds > 2

\* C30: the stream of draws depends on the seed only through its value
\* modulo 2 ** 32: the generator of a seed starts from the same state as
\* the generator of the seed reduced to 32 bits, and a run whose seed is
\* equal modulo 2 ** 32 to the seed of the first run, at the same size,
\* makes the same draws and stores the same grid, start, end and path.
SeedModulo ==
    /\ createSeededRandom(SeedNumber) = createSeededRandom(Number(seed, 0))
    /\ (Generated /\ again /\ ~pending /\ ref.size = gridSize
           /\ ref.seed = seed) =>
          /\ draws = ref.draws
          /\ maze = ref.result.grid
          /\ startPos = ref.result.start
          /\ endPos = ref.result.end
          /\ solutionPath = ref.result.path

\* a later run at the largest size of the view, with a seed that differs
\* from the seed of the first run by a multiple of 2 ** 32
SeedModuloWitness ==
    /\ Generated /\ again /\ ~pending
    /\ ref.size = gridSize /\ ref.seed = seed
    /\ seedHigh # ref.high
    /\ gridSize = MaxViewSize
    /\ Len(draws) > 4

====
